---- MODULE Spec2Model ----
(***************************************************************************)
(* Edge pruning of a transformer (maxtli/optimalablation).                 *)
(*                                                                         *)
(* Three state machines share this module:                                 *)
(*   Spec     - the training loop of edge_pruning.py with the early        *)
(*              termination counter of EdgePruner.early_term;             *)
(*   NanSpec  - MaskSampler.fix_nans applied to the sampling parameters;   *)
(*   FwdSpec  - EdgePruner.forward / run_cache driving the base model      *)
(*              through its hook points (cache hooks and patch hooks);     *)
(*   CkptSpec - take_snapshot and the resume block of edge_pruning.py      *)
(*              under interruption and requeueing of the run;              *)
(*   LogSpec  - the training log as forward calls append to it;            *)
(*   SampleSpec - sample_mask and get_mask_loss on the parameters that     *)
(*              optimizer steps and fix_nans leave;                        *)
(*   GradSpec - the modal terms of the patch hooks and which of them       *)
(*              carry gradient to the modal values.                        *)
(* Real numbers are kept as integers in a fixed unit: losses, slopes and   *)
(* temperatures in thousandths, the sharpness default in thirds.           *)
(***************************************************************************)
EXTENDS Integers, Sequences, FiniteSets, TLC

VARIABLES
    \* ---- training loop (edge_pruning.py) and training log ----
    train_pc,          \* "loop" | "plot" | "done": position in the for-loop body
    no_batches,        \* loop variable of range(log.t, max_batches)
    log_t,             \* edge_pruner.log.t
    log_temp,          \* edge_pruner.log.stat_book["temp"][-1], in thousandths
    early_term_count,  \* edge_pruner.log.early_term_count
    early_term_ret,    \* value returned by the last early_term() call
    snapshots,         \* suffixes j for which take_snapshot(j) has run
    good_streak,       \* history: consecutive evaluations (t >= 500) with all three conditions
    kl_osc,            \* history: no two consecutive evaluations (t >= 500) had flat KL
    eval_kl,           \* history: log.stat_sig_growth("kl_loss") at the last evaluation
    eval_cx,           \* history: log.stat_sig_growth("complexity_loss") at the last evaluation
    \* ---- MaskSampler.sampling_params and the calls of fix_nans ----
    sampling_params,   \* [mlp_mlp: rows x 2, attn_mlp: rows x heads x 2], last index (location, sharpness)
    nan_ret,           \* "none" | "true" | "false": flag returned by the last fix_nans()
    nan_calls,         \* history: fix_nans() calls since the last parameter update
    nan_prev,          \* history: sampling_params before the last fix_nans()
    nan_prev_ret,      \* history: flag returned by the fix_nans() before the last one
    \* ---- EdgePruner and the base model run it drives ----
    parallel_inference,    \* self.parallel_inference
    ablation_backward,     \* self.ablation_backward
    cache_compressed_attn, \* self.cache_compressed_attn
    modal_mlp,             \* self.modal_mlp: n_layers+1 values (d_model = 1)
    modal_attention,       \* self.modal_attention: n_layers x n_heads values
    sampled_mask,          \* mask_sampler.sampled_mask: "none" or the sampled gate pattern
    attention_cache,       \* self.attention_cache: list of rows x pos x heads
    mlp_cache,             \* self.mlp_cache: list of rows x pos
    attention_cache_src,   \* history: the component that produced each attention_cache entry
    mlp_cache_src,         \* history: the component that produced each mlp_cache entry
    disable_hooks,         \* self.disable_hooks
    disable_pruning_hooks, \* self.disable_pruning_hooks
    last_token_mask,       \* self.last_token_mask: batch x pos, or <<>> before the first call
    batch,                 \* the batch argument of the call in progress (tokens), batch x pos
    return_output,         \* the return_output argument of the forward call in progress
    fw_pass,               \* "idle" | "patched" | "reference" | "cache": base model run in progress
    fw_pc,                 \* index of the next hook point of that run (NHooks+1: the run returned)
    fw_status,             \* "none" | "running" | "returned" | "raised": outcome of the last call
    fw_exc,                \* the exception that ended the call, and what its handler printed
    resid,                 \* base model: the residual stream, rows x pos
    q_in, k_in, v_in,      \* base model: what hook_q_input, hook_k_input, hook_v_input returned
    mlp_in,                \* base model: what hook_mlp_in (or the inner hook of patch_final) returned
    hook_done,             \* history: the patch hook that ran last, and whether it patched
    model_out,             \* what the last self.base_model(...) call returned, rows of outputs
    pruned_output,         \* forward: pruned_output
    orig_output,           \* forward: orig_output
    \* ---- checkpoint files and the resume block (edge_pruning.py) ----
    ck_pc,             \* "start" | "loop" | "snapshot" | "metadata" | "load_failed" | "done"
    gpu_requeue,       \* the gpu_requeue setting
    pretrained,        \* the pretrained setting
    snapshot_path,     \* the file at snapshot_path: <<>> (absent) or <<generation, log.t>>
    metadata_path,     \* the file at metadata_path: <<>> (absent) or <<generation, log.t>>
    ck_gen,            \* history: take_snapshot calls so far, over all runs
    ck_log_t,          \* edge_pruner.log.t of the run in progress
    ck_no_batches,     \* the loop variable of the run in progress
    restored,          \* history: the generation each piece of state was loaded from
    ck_restarts,       \* history: interruptions so far
    \* ---- the training log (LinePlot) as EdgePruner.forward fills it ----
    stat_book,         \* log.stat_book: one series of values per column
    stat_t,            \* log.t
    pause_log,         \* self.pause_log
    log_calls,         \* history: forward calls so far
    steps_done,        \* history: training calls that completed with logging on
    \* ---- MaskSampler.sample_mask and get_mask_loss ----
    prune_mask,        \* the gates sampled by the last sample_mask(), one per edge; <<>> before
    mask_details,      \* the details returned by the last get_mask_loss(); <<>> before
    \* ---- the modal terms of a patch hook and their gradient ----
    hook_modal         \* the modal terms one edge got in the last hook evaluated; <<>> before

train_vars == <<train_pc, no_batches, log_t, log_temp, early_term_count,
                early_term_ret, snapshots, good_streak, kl_osc, eval_kl, eval_cx>>

nan_vars == <<sampling_params, nan_ret, nan_calls, nan_prev, nan_prev_ret>>

cfg_vars == <<parallel_inference, ablation_backward, cache_compressed_attn,
              modal_mlp, modal_attention>>

cache_vars == <<attention_cache, mlp_cache, attention_cache_src, mlp_cache_src>>

run_vars == <<resid, q_in, k_in, v_in, mlp_in, hook_done, model_out>>

fwd_vars == <<cfg_vars, cache_vars, run_vars, sampled_mask, disable_hooks,
              disable_pruning_hooks, last_token_mask, batch, return_output,
              fw_pass, fw_pc, fw_status, fw_exc, pruned_output, orig_output>>

ckpt_vars == <<ck_pc, gpu_requeue, pretrained, snapshot_path, metadata_path,
               ck_gen, ck_log_t, ck_no_batches, restored, ck_restarts>>

log_vars == <<stat_book, stat_t, pause_log, log_calls, steps_done>>

samp_vars == <<prune_mask, mask_details>>

grad_vars == <<hook_modal>>

ext_vars == <<ckpt_vars, log_vars, samp_vars, grad_vars>>

\* what the actions of one state machine leave alone
ckpt_frame == <<train_vars, nan_vars, fwd_vars, log_vars, samp_vars, grad_vars>>
log_frame == <<train_vars, nan_vars, fwd_vars, ckpt_vars, samp_vars, grad_vars>>
samp_frame == <<train_vars, nan_vars, fwd_vars, ckpt_vars, log_vars, grad_vars>>
grad_frame == <<train_vars, nan_vars, fwd_vars, ckpt_vars, log_vars, samp_vars>>

vars == <<train_vars, nan_vars, fwd_vars, ext_vars>>

----------------------------------------------------------------------------
(* Program constants                                                       *)

\* edge_pruning.py:105
max_batches == 3000
\* EdgePruner.early_term: if self.log.t < 500
MinSteps == 500
\* edge_pruning.py:139  early_term() >= 10
TermThreshold == 10
\* EdgePruner.early_term: kl_loss_decl < 0.01 (thousandths)
KlSlopeMax == 10
\* EdgePruner.early_term: decline_pct=.03 (thousandths)
DeclinePct == 30
\* EdgePruner.early_term: temp < 1e-2 (thousandths)
TempMax == 10

(* Bounds of the model                                                     *)

\* pruning_cfg.record_every (configuration, not in the sources)
RecordEvery == 100
\* pruning_cfg.checkpoint_every (configuration, not in the sources)
CheckpointEvery == 2
\* model.cfg.n_heads
NHeads == 2
\* rows (sources) of the parameter tensors of one destination layer
ParamRows == 2
\* non-finite entries the optimizers may have produced between two repairs
MaxBad == 2
\* fix_nans() calls in a row with no parameter update in between
MaxCallsInRow == 2
\* model.cfg.n_layers
NLayers == 2
\* sequence length of a batch
SeqLen == 2
\* pruning_cfg.batch_size
BatchSize == 2
\* pruning_cfg.n_samples
NSamples == 1
\* the batch count at which the loop of the checkpointing model ends
CkMaxBatches == 220
\* interruptions of the run in the checkpointing model
MaxRestarts == 1
\* forward calls in the model of the training log
MaxLogCalls == 4

\* Values the log statistics take at an evaluation, on both sides of each
\* threshold (thousandths): the result of log.stat_sig_growth("kl_loss"),
\* of log.stat_sig_growth("complexity_loss") and the logged temperature.
KlSlopes == {KlSlopeMax - 1, KlSlopeMax}
ComplexDecls == {DeclinePct - 1, DeclinePct}
Temps == {TempMax - 1, TempMax}

----------------------------------------------------------------------------
(* Training loop                                                           *)

Max(a, b) == IF a >= b THEN a ELSE b
Min(a, b) == IF a <= b THEN a ELSE b

\* Python's a % b, whose result takes the sign of b
PyMod(a, b) == IF b > 0 THEN a % b ELSE -((-a) % (-b))

\* plotting = no_batches % (-1 * record_every) == -1
plotting(n) == PyMod(n, -1 * RecordEvery) = -1
\* checkpointing = no_batches % (-1 * checkpoint_every * record_every) == -1
checkpointing(n) == PyMod(n, -1 * CheckpointEvery * RecordEvery) = -1

\* kl_loss_decl < 0.01
KlFlat(kl) == kl < KlSlopeMax

\* the three conditions of EdgePruner.early_term
AllConditions(kl, cx, temp) == KlFlat(kl) /\ cx < DeclinePct /\ temp < TempMax

early_term_nodecr(t, count, kl, cx, temp) ==
    IF t < MinSteps THEN [count |-> count, ret |-> 0]
    ELSE LET c == IF AllConditions(kl, cx, temp) THEN count + 1 ELSE count
         IN [count |-> c, ret |-> c]

early_term_decr1(t, count, kl, cx, temp) ==
    IF t < MinSteps THEN [count |-> count, ret |-> 0]
    ELSE LET c == IF AllConditions(kl, cx, temp) THEN count + 1 ELSE Max(0, count - 1)
         IN [count |-> c, ret |-> c]

\* EdgePruner.early_term: the new counter and the returned value
early_term(t, count, kl, cx, temp) ==
    IF t < MinSteps THEN [count |-> count, ret |-> 0]
    ELSE LET c == IF AllConditions(kl, cx, temp) THEN count + 1 ELSE Max(0, count - 2)
         IN [count |-> c, ret |-> c]

EarlyTermHalts_gt(ret) == ret > TermThreshold

\* if edge_pruner.early_term() >= 10: take_snapshot("-final"); break
EarlyTermHalts(ret) == ret >= TermThreshold

\* the loop variable after one more pass of range(log.t, max_batches)
NextIteration ==
    /\ no_batches' = no_batches + 1
    /\ train_pc' = IF no_batches + 1 < max_batches THEN "loop" ELSE "done"

TrainInit ==
    /\ train_pc = "loop"
    /\ no_batches = 0
    /\ log_t = 0
    /\ log_temp = TempMax
    /\ early_term_count = 0
    /\ early_term_ret = 0
    /\ snapshots = {}
    /\ good_streak = 0
    /\ kl_osc = TRUE
    /\ eval_kl = KlSlopeMax
    /\ eval_cx = DeclinePct

\* One training step: forward (which appends one log entry), backward, both
\* optimizer steps, fix_nans and the step-size entry; then the plotting test.
TrainStep ==
    /\ train_pc = "loop"
    /\ \E temp \in Temps :
        /\ log_t' = log_t + 1
        /\ log_temp' = temp
    /\ IF plotting(no_batches)
       THEN train_pc' = "plot" /\ no_batches' = no_batches
       ELSE NextIteration
    /\ UNCHANGED <<early_term_count, early_term_ret, snapshots,
                   good_streak, kl_osc, eval_kl, eval_cx>>
    /\ UNCHANGED <<nan_vars, fwd_vars, ext_vars>>

\* The plotting block: snapshots, the early_term() evaluation and the break.
PlotBlock ==
    /\ train_pc = "plot"
    /\ \E kl \in KlSlopes, cx \in ComplexDecls :
        LET r == early_term(log_t, early_term_count, kl, cx, log_temp)
            taken == {""} \cup (IF checkpointing(no_batches) THEN {"-ckpt"} ELSE {})
        IN /\ early_term_count' = r.count
           /\ early_term_ret' = r.ret
           /\ IF EarlyTermHalts(r.ret)
              THEN /\ snapshots' = snapshots \cup taken \cup {"-final"}
                   /\ train_pc' = "done"
                   /\ no_batches' = no_batches
              ELSE /\ snapshots' = snapshots \cup taken
                   /\ NextIteration
           /\ IF log_t < MinSteps
              THEN UNCHANGED <<good_streak, kl_osc, eval_kl, eval_cx>>
              ELSE /\ good_streak' = IF AllConditions(kl, cx, log_temp)
                                     THEN good_streak + 1 ELSE 0
                   /\ kl_osc' = (kl_osc /\ ~(KlFlat(eval_kl) /\ KlFlat(kl)))
                   /\ eval_kl' = kl
                   /\ eval_cx' = cx
    /\ UNCHANGED <<log_t, log_temp>>
    /\ UNCHANGED <<nan_vars, fwd_vars, ext_vars>>

----------------------------------------------------------------------------
(* Sampling parameters and MaskSampler.fix_nans                            *)

\* A parameter entry is finite (with its value in thirds), NaN or infinite.
Fin(v) == <<"fin", v>>
NaN == <<"nan", 0>>
Inf == <<"inf", 0>>
IsNan(x) == x[1] = "nan"
IsFinite(x) == x[1] = "fin"

\* self.def_value = 2/3, in thirds
DefValueThirds == 2
def_value == Fin(DefValueThirds)

Rows == 0 .. ParamRows - 1
Heads == 0 .. NHeads - 1
\* last index of a parameter tensor: 0 is the location, 1 the sharpness
LOC == 0
SHARP == 1
Pair == {LOC, SHARP}

\* the entries of both tensors, as <<tensor, row, head, column>>
Entries == {<<"mlp_mlp", r, 0, c>> : r \in Rows, c \in Pair}
           \cup {<<"attn_mlp", r, h, c>> : r \in Rows, h \in Heads, c \in Pair}

Entry(sp, e) == IF e[1] = "mlp_mlp" THEN sp.mlp_mlp[e[2]][e[4]]
                ELSE sp.attn_mlp[e[2]][e[3]][e[4]]

SetEntry(sp, e, x) ==
    IF e[1] = "mlp_mlp"
    THEN [sp EXCEPT !.mlp_mlp[e[2]][e[4]] = x]
    ELSE [sp EXCEPT !.attn_mlp[e[2]][e[3]][e[4]] = x]

\* sampling_params.isnan().sum() over get_sampling_params()
nancount(sp) == Cardinality({e \in Entries : IsNan(Entry(sp, e))})

\* ts[ts[:,1].isnan().nonzero()[:,0],-1] = self.def_value, ts of shape rows x 2:
\* ts[:,1] is the sharpness column, and index -1 of a row is its sharpness.
repair_2d(ts) ==
    [r \in Rows |-> IF IsNan(ts[r][SHARP]) THEN [ts[r] EXCEPT ![SHARP] = def_value]
                    ELSE ts[r]]

\* the same statement on ts of shape rows x heads x 2: ts[:,1] is head 1
\* (location and sharpness), and index -1 of a row is its whole last head.
repair_3d(ts) ==
    LET hit == {r \in Rows : \E c \in Pair : IsNan(ts[r][1][c])}
    IN [r \in Rows |-> IF r \in hit
                       THEN [ts[r] EXCEPT ![NHeads - 1] = [c \in Pair |-> def_value]]
                       ELSE ts[r]]


HasNan2d(ts) == \E r \in Rows, c \in Pair : IsNan(ts[r][c])
HasNan3d(ts) == \E r \in Rows, h \in Heads, c \in Pair : IsNan(ts[r][h][c])

fix_nans_flag_before(sp) ==
    IF nancount(sp) > 0
    THEN [params |-> [mlp_mlp |-> repair_2d(sp.mlp_mlp), attn_mlp |-> repair_3d(sp.attn_mlp)],
          ret |-> "false"]
    ELSE [params |-> sp, ret |-> "true"]

\* MaskSampler.fix_nans: the parameters after the call and the returned flag
fix_nans(sp) ==
    IF nancount(sp) > 0
    THEN LET m == repair_2d(sp.mlp_mlp)
             a == repair_3d(sp.attn_mlp)
         IN [params |-> [mlp_mlp |-> m, attn_mlp |-> a],
             ret |-> IF HasNan2d(m) \/ HasNan3d(a) THEN "false" ELSE "true"]
    ELSE [params |-> sp, ret |-> "true"]

\* torch.nn.Parameter(p_init): finite initial parameters
NanInit ==
    /\ sampling_params = [mlp_mlp |-> [r \in Rows |-> [c \in Pair |-> Fin(1)]],
                          attn_mlp |-> [r \in Rows |-> [h \in Heads |-> [c \in Pair |-> Fin(1)]]]]
    /\ nan_ret = "none"
    /\ nan_calls = 0
    /\ nan_prev = sampling_params
    /\ nan_prev_ret = "none"

\* sampling_optimizer.step(): an update leaves one more entry NaN or infinite
OptimizerStep ==
    /\ \E e \in Entries, x \in {NaN, Inf} :
        /\ IsFinite(Entry(sampling_params, e))
        /\ Cardinality({d \in Entries : ~IsFinite(Entry(sampling_params, d))}) < MaxBad
        /\ sampling_params' = SetEntry(sampling_params, e, x)
    /\ nan_ret' = "none"
    /\ nan_calls' = 0
    /\ nan_prev' = sampling_params'
    /\ nan_prev_ret' = "none"
    /\ UNCHANGED <<train_vars, fwd_vars, ext_vars>>

\* mask_sampler.fix_nans()
FixNans ==
    /\ nan_calls < MaxCallsInRow
    /\ LET r == fix_nans(sampling_params)
       IN /\ sampling_params' = r.params
          /\ nan_ret' = r.ret
    /\ nan_prev' = sampling_params
    /\ nan_prev_ret' = nan_ret
    /\ nan_calls' = nan_calls + 1
    /\ UNCHANGED <<train_vars, fwd_vars, ext_vars>>

----------------------------------------------------------------------------
(* Base model (HookedTransformer with split q/k/v inputs and hook_mlp_in)  *)
(* with d_model = d_head = 1. A tensor is a sequence of rows; a row maps   *)
(* each position to a value, or to one value per head.                     *)

Pos == 0 .. SeqLen - 1
Layers == 0 .. NLayers - 1
Circs == {0, 1, 2}

RECURSIVE SumOver(_, _)
SumOver(f, S) ==
    IF S = {} THEN 0
    ELSE LET x == CHOOSE y \in S : TRUE IN f[x] + SumOver(f, S \ {x})

\* the sum of the values of f
Sum(f) == SumOver(f, DOMAIN f)

\* python x[:n] and x[n:] on the row dimension
Head_(x, n) == SubSeq(x, 1, Min(n, Len(x)))
Tail_(x, n) == SubSeq(x, n + 1, Len(x))

\* batch.repeat(k, 1)
Repeat(b, k) == [j \in 1 .. k * Len(b) |-> b[((j - 1) % Len(b)) + 1]]

\* token and position embedding: the value at blocks.0.hook_resid_pre
Embed(tokens) == [j \in 1 .. Len(tokens) |-> [p \in Pos |-> 2 * tokens[j][p] + p]]

\* the residual stream copied to every head (the input of hook_q_input, ...)
PerHead(x) == [j \in 1 .. Len(x) |-> [p \in Pos |-> [h \in Heads |-> x[j][p]]]]

\* attn.W_O and attn.b_O of layer l
W_O(l, h) == h + 2
b_O(l) == l + 1

\* attention pattern and values of layer l: position p attends to positions <= p
AttnZ(l, q, k, v) ==
    [j \in 1 .. Len(q) |-> [p \in Pos |-> [h \in Heads |->
        (l + 1) * q[j][p][h]
        + Sum([pp \in 0 .. p |-> k[j][pp][h] + (h + 1) * v[j][pp][h]])]]]

\* the activation at the cached attention hook point: hook_z when the cache is
\* compressed, hook_result (z projected by W_O) otherwise
AttnAct(l, q, k, v) ==
    LET z == AttnZ(l, q, k, v)
    IN IF cache_compressed_attn THEN z
       ELSE [j \in 1 .. Len(z) |-> [p \in Pos |-> [h \in Heads |-> z[j][p][h] * W_O(l, h)]]]

\* attn_out = sum over heads of the projected head outputs, plus b_O
AttnOut(l, act) ==
    [j \in 1 .. Len(act) |-> [p \in Pos |->
        Sum([h \in Heads |-> IF cache_compressed_attn THEN act[j][p][h] * W_O(l, h)
                             ELSE act[j][p][h]]) + b_O(l)]]

\* the MLP of layer l, position by position
MlpOut(l, x) == [j \in 1 .. Len(x) |-> [p \in Pos |-> 2 * x[j][p] + l + 1]]

\* ln_final and unembed, applied to each latched output
Unembed(x) == [j \in 1 .. Len(x) |-> 3 * x[j] + 1]

AddT(x, y) == [j \in 1 .. Len(x) |-> [p \in Pos |-> x[j][p] + y[j][p]]]

\* Hook points in the order the base model reaches them
NHooks == 6 * NLayers + 2
HookKinds == <<"q", "k", "v", "attn_out", "mlp_in", "mlp_out">>
HookAt(i) ==
    IF i = 1 THEN [kind |-> "embed", layer |-> 0]
    ELSE IF i = NHooks THEN [kind |-> "final", layer |-> NLayers]
    ELSE [kind |-> HookKinds[((i - 2) % 6) + 1], layer |-> (i - 2) \div 6]

----------------------------------------------------------------------------
(* EdgePruner                                                              *)

\* Batches a call may be given: two token values per position, the rows of
\* a batch equal ("same") or different at position 0 only ("bos"), at the
\* later positions only ("tail") or everywhere ("all").
InputIds == {"same", "bos", "tail", "all"}
Batch(id) ==
    [b \in 1 .. BatchSize |-> [p \in Pos |->
        1 + (p % 2) + (IF \/ id = "all"
                          \/ (id = "bos" /\ p = 0)
                          \/ (id = "tail" /\ p > 0)
                       THEN b - 1 ELSE 0)]]

\* Sampled masks: every gate 1, every gate 0, or gates 0 and 1 mixed
MaskIds == {"ones", "zeros", "mixed"}
Gate(m, key) == IF m = "ones" THEN 1 ELSE IF m = "zeros" THEN 0 ELSE key % 2

\* sampled_mask["mlp-attn"][layer_no][row, circ, dest_head, source]
g_mlp_attn(m, L, j, c, dh, i) == Gate(m, L + j + c + dh + i)
\* sampled_mask["attn-attn"][layer_no][row, circ, dest_head, prev_layer, source_head]
g_attn_attn(m, L, j, c, dh, pl, sh) == Gate(m, L + j + c + dh + pl + sh)
\* sampled_mask["mlp-mlp"][layer_no][row, source]
g_mlp_mlp(m, L, j, i) == Gate(m, L + j + i + 1)
\* sampled_mask["attn-mlp"][layer_no][row, prev_layer, source_head]
g_attn_mlp(m, L, j, pl, sh) == Gate(m, L + j + pl + sh)

\* rows of a sampled mask: bsz = n_samples * batch_size
MaskRows == NSamples * BatchSize

\* Modal values: all zero, or distinct non-zero values
ModalIds == {"zero", "nonzero"}
ModalMlp(id) == [i \in 1 .. NLayers + 1 |-> IF id = "zero" THEN 0 ELSE 6 + i]
ModalAttention(id) ==
    [l \in 1 .. NLayers |-> [h \in Heads |-> IF id = "zero" THEN 0 ELSE 10 + 2 * l + h]]

\* self.attention_cache.clear(); self.mlp_cache.clear()
setup_inference_keep(cache) == cache

setup_inference(cache) == <<>>

\* last_token_mask[arange, last_token_pos] = 1
LastTokenMask(lp) == [b \in 1 .. BatchSize |-> [p \in Pos |-> IF p = lp THEN 1 ELSE 0]]

\* get_cache_hooks: the list each cache hook appends to
cache_storage_swapped(kind) == IF kind = "attn_out" THEN "mlp" ELSE "attention"

cache_storage(kind) == IF kind = "attn_out" THEN "attention" ELSE "mlp"

cache_hook_all_tokens_always(activations) ==
    IF parallel_inference
    THEN [append |-> <<Tail_(activations, BatchSize)>>, ret |-> Head_(activations, BatchSize)]
    ELSE [append |-> <<activations>>, ret |-> activations]

\* cache_hook_all_tokens: what is appended (<<>>: nothing) and what is returned
cache_hook_all_tokens(activations) ==
    IF disable_hooks THEN [append |-> <<>>, ret |-> activations]
    ELSE IF parallel_inference
    THEN [append |-> <<Tail_(activations, BatchSize)>>, ret |-> Head_(activations, BatchSize)]
    ELSE [append |-> <<activations>>, ret |-> activations]

prepend_orig_two(orig_in, out) ==
    IF parallel_inference THEN Head_(orig_in, BatchSize) \o out
    ELSE [j \in 1 .. Len(out) |-> [p \in Pos |-> IF p <= 1 THEN orig_in[j][p] ELSE out[j][p]]]

\* prepend_orig of both patch hooks
prepend_orig(orig_in, out) ==
    IF parallel_inference THEN Head_(orig_in, BatchSize) \o out
    ELSE [j \in 1 .. Len(out) |-> [p \in Pos |-> IF p = 0 THEN orig_in[j][p] ELSE out[j][p]]]

\* torch.cat in prepend_orig needs equal row counts unless it joins the rows
PrependOk(orig_in) == parallel_inference \/ Len(orig_in) = MaskRows

\* the stacked caches have the sizes the mask and the modal slices have
MlpCacheFits(n) ==
    /\ Len(mlp_cache) = n
    /\ \A i \in 1 .. Len(mlp_cache) : Len(mlp_cache[i]) = MaskRows
AttnCacheFits(n) ==
    /\ Len(attention_cache) = n
    /\ \A i \in 1 .. Len(attention_cache) : Len(attention_cache[i]) = MaskRows

\* self.modal_mlp[:n], self.modal_attention[:n], self.W_O[:n], self.post_bias[:n]
modal_mlp_slice(n) == SubSeq(modal_mlp, 1, n)
modal_attention_slice(n) == SubSeq(modal_attention, 1, n)
post_bias_sum(n) == Sum([l \in 1 .. n |-> b_O(l - 1)])
Project(pl, sh) == IF cache_compressed_attn THEN W_O(pl - 1, sh) ELSE 1

Raised == [raised |-> TRUE, patched |-> FALSE, val |-> <<>>]
RaisedBy(e) == Raised @@ [exc |-> e]

\* an exception leaving a hook: the statement that raised first, the
\* exception that leaves the hook, and what the except clause printed
NoExc == [src |-> "none", step |-> "none", exc |-> "none", printed |-> <<>>]
BaseModelError == [src |-> "base_model", step |-> "none", exc |-> "original", printed |-> <<>>]
OutsideTry(step) == [src |-> "hook", step |-> step, exc |-> "original", printed |-> <<>>]

\* the except clause: the print statements run in order; one that cannot be
\* evaluated raises in place of "raise e". ok[i] tells whether print i can
\* be evaluated
RECURSIVE RunPrints(_, _, _, _)
RunPrints(names, ok, err, i) ==
    IF i > Len(names) THEN [exc |-> "original", printed |-> names]
    ELSE IF ~ok[i] THEN [exc |-> err[i], printed |-> SubSeq(names, 1, i - 1)]
    ELSE RunPrints(names, ok, err, i + 1)

\* the statement of the attention hook's try block that raises first
attn_try_fault(L, orig_in) ==
    IF sampled_mask = "none" THEN "mlp_mask"
    ELSE IF ~MlpCacheFits(L + 1) THEN "mlp_stack"
    ELSE IF L = 0 THEN (IF ~PrependOk(orig_in) THEN "prepend_orig" ELSE "none")
    ELSE IF ~AttnCacheFits(L) THEN "attn_stack"
    ELSE "none"

\* except Exception as e: of the attention hook
attn_handler(step) ==
    LET r == RunPrints(<<"sampled_mask", "orig_in", "mlp_mask", "attn_mask">>,
                       <<sampled_mask # "none", TRUE, step # "mlp_mask", step = "attn_stack">>,
                       <<"TypeError", "none", "UnboundLocalError", "UnboundLocalError">>, 1)
    IN [src |-> "attention_try", step |-> step, exc |-> r.exc, printed |-> r.printed]

\* the statement of the MLP hook's try block that raises first
mlp_try_fault(L, orig_in) ==
    IF sampled_mask = "none" THEN "mlp_mask"
    ELSE IF ~MlpCacheFits(L + 1) THEN "mlp_stack"
    ELSE IF ~AttnCacheFits(Min(L + 1, NLayers)) THEN "attn_stack"
    ELSE "none"

\* except Exception as e: of the MLP hook
mlp_handler(step) ==
    LET r == RunPrints(<<"orig_in", "attn_mask", "mlp_mask">>,
                       <<TRUE, step = "attn_stack", step # "mlp_mask">>,
                       <<"none", "UnboundLocalError", "UnboundLocalError">>, 1)
    IN [src |-> "mlp_try", step |-> step, exc |-> r.exc, printed |-> r.printed]
Returned(patched, val) == [raised |-> FALSE, patched |-> patched, val |-> val]

\* pruning_edge_attention_hook_all_tokens(layer_no, circ_idx, orig_in)
pruning_edge_attention_hook_all_tokens(L, c, orig_in) ==
    IF disable_hooks THEN Returned(FALSE, orig_in)
    ELSE IF attn_try_fault(L, orig_in) # "none"
    THEN RaisedBy(attn_handler(attn_try_fault(L, orig_in)))
    ELSE IF ~PrependOk(orig_in) THEN RaisedBy(OutsideTry("prepend_orig"))
    ELSE
    LET m == sampled_mask
        mm == modal_mlp_slice(L + 1)
        ma == modal_attention_slice(L)
        mlp_term(j, p, dh) ==
            Sum([i \in 1 .. L + 1 |->
                g_mlp_attn(m, L, j, c, dh, i) * mlp_cache[i][j][p]
                + (IF ablation_backward THEN 0
                   ELSE (1 - g_mlp_attn(m, L, j, c, dh, i)) * mm[i])])
        attn_term(j, p, dh) ==
            Sum([e \in (1 .. L) \X Heads |->
                (g_attn_attn(m, L, j, c, dh, e[1], e[2]) * attention_cache[e[1]][j][p][e[2]]
                 + (1 - g_attn_attn(m, L, j, c, dh, e[1], e[2])) * ma[e[1]][e[2]])
                * Project(e[1], e[2])])
        out == [j \in 1 .. MaskRows |-> [p \in Pos |-> [dh \in Heads |->
                  IF L = 0 THEN mlp_term(j, p, dh)
                  ELSE mlp_term(j, p, dh) + attn_term(j, p, dh) + post_bias_sum(L)
                       + (IF ablation_backward THEN modal_attention[L + 1][dh] ELSE 0)]]]
    IN Returned(TRUE, prepend_orig(orig_in, out))

\* pruning_edge_mlp_hook_all_tokens(layer_no, orig_in)
pruning_edge_mlp_hook_all_tokens(L, orig_in) ==
    IF disable_hooks \/ disable_pruning_hooks THEN Returned(FALSE, orig_in)
    ELSE LET attn_layers_before == Min(L + 1, NLayers) IN
    IF mlp_try_fault(L, orig_in) # "none"
    THEN RaisedBy(mlp_handler(mlp_try_fault(L, orig_in)))
    ELSE IF ~PrependOk(orig_in) THEN RaisedBy(OutsideTry("prepend_orig"))
    ELSE
    LET m == sampled_mask
        mm == modal_mlp_slice(L + 1)
        ma == modal_attention_slice(attn_layers_before)
        mlp_term(j, p) ==
            Sum([i \in 1 .. L + 1 |->
                g_mlp_mlp(m, L, j, i) * mlp_cache[i][j][p]
                + (IF ablation_backward THEN 0
                   ELSE (1 - g_mlp_mlp(m, L, j, i)) * mm[i])])
        attn_term(j, p) ==
            Sum([e \in (1 .. attn_layers_before) \X Heads |->
                (g_attn_mlp(m, L, j, e[1], e[2]) * attention_cache[e[1]][j][p][e[2]]
                 + (1 - g_attn_mlp(m, L, j, e[1], e[2])) * ma[e[1]][e[2]])
                * Project(e[1], e[2])])
        out == [j \in 1 .. MaskRows |-> [p \in Pos |->
                  mlp_term(j, p) + attn_term(j, p) + post_bias_sum(attn_layers_before)
                  + (IF ablation_backward THEN modal_mlp[L + 1] ELSE 0)]]
    IN Returned(TRUE, prepend_orig(orig_in, out))

\* the tail of pruning_edge_final_hook_all_tokens: unsqueeze or unflatten the
\* rows into groups of batch_size, and latch each row to its last token
final_latch(out) ==
    [j \in 1 .. Len(out) |->
        Sum([p \in Pos |-> out[j][p] * last_token_mask[((j - 1) % BatchSize) + 1][p]])]
FinalOk(out) == Len(out) > 0 /\ Len(out) % BatchSize = 0

NoHook == [kind |-> "none", layer |-> 0, patched |-> FALSE]

\* EdgePruner.__init__ (and, for Init, the construction in edge_pruning.py)
FwdInitWith(par, ab, comp, modal) ==
    /\ parallel_inference = par
    /\ ablation_backward = ab
    /\ cache_compressed_attn = comp
    /\ modal_mlp = ModalMlp(modal)
    /\ modal_attention = ModalAttention(modal)
    /\ sampled_mask = "none"
    /\ attention_cache = <<>>
    /\ mlp_cache = <<>>
    /\ attention_cache_src = <<>>
    /\ mlp_cache_src = <<>>
    /\ disable_hooks = FALSE
    /\ disable_pruning_hooks = FALSE
    /\ last_token_mask = <<>>
    /\ batch = <<>>
    /\ return_output = FALSE
    /\ fw_pass = "idle"
    /\ fw_pc = 0
    /\ fw_status = "none"
    /\ fw_exc = NoExc
    /\ resid = <<>>
    /\ q_in = <<>>
    /\ k_in = <<>>
    /\ v_in = <<>>
    /\ mlp_in = <<>>
    /\ hook_done = NoHook
    /\ model_out = <<>>
    /\ pruned_output = <<>>
    /\ orig_output = <<>>

\* a call starts the base model, which runs to its first hook point
StartRun(pass, rows) ==
    /\ fw_pass' = pass
    /\ fw_pc' = 1
    /\ fw_status' = "running"
    /\ fw_exc' = NoExc
    /\ resid' = Embed(rows)
    /\ q_in' = <<>>
    /\ k_in' = <<>>
    /\ v_in' = <<>>
    /\ mlp_in' = <<>>
    /\ hook_done' = NoHook
    /\ model_out' = <<>>

\* a call returns to its caller
EndCall(status) ==
    /\ fw_pass' = "idle"
    /\ fw_status' = status

\* an exception leaves the hook, the base model and the call; no caller in
\* the sources catches it, so it ends the program
Raise ==
    /\ EndCall("raised")
    /\ UNCHANGED <<cfg_vars, cache_vars, run_vars, sampled_mask, disable_hooks,
                   disable_pruning_hooks, last_token_mask, batch, return_output,
                   fw_pc, pruned_output, orig_output>>

\* EdgePruner.forward up to the first hook point of the patched run:
\* setup_inference, mask_sampler() and base_model(batch.repeat(...))
ForwardCall ==
    /\ fw_pass = "idle"
    /\ fw_status # "raised"
    /\ \E id \in InputIds, lp \in Pos, m \in MaskIds, ro \in BOOLEAN :
        /\ batch' = Batch(id)
        /\ last_token_mask' = LastTokenMask(lp)
        /\ sampled_mask' = m
        /\ return_output' = ro
    /\ attention_cache' = setup_inference(attention_cache)
    /\ mlp_cache' = setup_inference(mlp_cache)
    /\ attention_cache_src' = setup_inference(attention_cache_src)
    /\ mlp_cache_src' = setup_inference(mlp_cache_src)
    /\ StartRun("patched", Repeat(batch', NSamples + (IF parallel_inference THEN 1 ELSE 0)))
    /\ pruned_output' = <<>>
    /\ orig_output' = <<>>
    /\ UNCHANGED <<cfg_vars, disable_hooks, disable_pruning_hooks>>
    /\ UNCHANGED <<train_vars, nan_vars, ext_vars>>

\* EdgePruner.run_cache up to the first hook point of its run
RunCacheCall ==
    /\ fw_pass = "idle"
    /\ fw_status # "raised"
    /\ \E id \in InputIds, lp \in Pos :
        /\ batch' = Batch(id)
        /\ last_token_mask' = LastTokenMask(lp)
    /\ attention_cache' = setup_inference(attention_cache)
    /\ mlp_cache' = setup_inference(mlp_cache)
    /\ attention_cache_src' = setup_inference(attention_cache_src)
    /\ mlp_cache_src' = setup_inference(mlp_cache_src)
    /\ disable_pruning_hooks' = TRUE
    /\ StartRun("cache", batch')
    /\ pruned_output' = <<>>
    /\ orig_output' = <<>>
    /\ UNCHANGED <<cfg_vars, sampled_mask, disable_hooks, return_output>>
    /\ UNCHANGED <<train_vars, nan_vars, ext_vars>>

AtHook(kinds) ==
    /\ fw_pass # "idle"
    /\ fw_pc <= NHooks
    /\ HookAt(fw_pc).kind \in kinds

\* storage.append(...) of a cache hook registered for `kind` at layer l
CacheAppend(kind, l, r) ==
    LET tag == IF r.append = <<>> THEN <<>> ELSE << <<kind, l>> >>
    IN IF cache_storage(kind) = "mlp"
       THEN /\ mlp_cache' = mlp_cache \o r.append
            /\ mlp_cache_src' = mlp_cache_src \o tag
            /\ UNCHANGED <<attention_cache, attention_cache_src>>
       ELSE /\ attention_cache' = attention_cache \o r.append
            /\ attention_cache_src' = attention_cache_src \o tag
            /\ UNCHANGED <<mlp_cache, mlp_cache_src>>

FrameHook ==
    /\ UNCHANGED <<cfg_vars, sampled_mask, disable_hooks, disable_pruning_hooks,
                   last_token_mask, batch, return_output, fw_pass, fw_status,
                   fw_exc, pruned_output, orig_output>>
    /\ UNCHANGED <<train_vars, nan_vars, ext_vars>>

\* cache_embed at blocks.0.hook_resid_pre
CacheEmbed ==
    /\ AtHook({"embed"})
    /\ LET r == cache_hook_all_tokens(resid)
       IN /\ CacheAppend("embed", 0, r)
          /\ resid' = r.ret
    /\ fw_pc' = fw_pc + 1
    /\ hook_done' = [kind |-> "embed", layer |-> 0, patched |-> FALSE]
    /\ UNCHANGED <<q_in, k_in, v_in, mlp_in, model_out>>
    /\ FrameHook

\* patch_attn_{layer}_{circ} at blocks.{layer}.hook_{q,k,v}_input
PatchAttn ==
    /\ AtHook({"q", "k", "v"})
    /\ LET h == HookAt(fw_pc)
           c == IF h.kind = "q" THEN 0 ELSE IF h.kind = "k" THEN 1 ELSE 2
           r == pruning_edge_attention_hook_all_tokens(h.layer, c, PerHead(resid))
       IN IF r.raised THEN Raise /\ fw_exc' = r.exc /\ UNCHANGED <<train_vars, nan_vars, ext_vars>>
          ELSE /\ q_in' = IF c = 0 THEN r.val ELSE q_in
               /\ k_in' = IF c = 1 THEN r.val ELSE k_in
               /\ v_in' = IF c = 2 THEN r.val ELSE v_in
               /\ hook_done' = [kind |-> h.kind, layer |-> h.layer, patched |-> r.patched]
               /\ fw_pc' = fw_pc + 1
               /\ UNCHANGED <<cache_vars, resid, mlp_in, model_out>>
               /\ FrameHook

\* cache_attn_{layer} at attn.hook_z (attn.hook_result when the cache is not
\* compressed); the base model then adds attn_out to the residual stream
CacheAttn ==
    /\ AtHook({"attn_out"})
    /\ LET l == HookAt(fw_pc).layer
           r == cache_hook_all_tokens(AttnAct(l, q_in, k_in, v_in))
       IN IF Len(r.ret) # Len(resid)
          THEN Raise /\ fw_exc' = BaseModelError /\ UNCHANGED <<train_vars, nan_vars, ext_vars>>
          ELSE /\ CacheAppend("attn_out", l, r)
               /\ resid' = AddT(resid, AttnOut(l, r.ret))
               /\ q_in' = <<>>
               /\ k_in' = <<>>
               /\ v_in' = <<>>
               /\ hook_done' = [kind |-> "attn_out", layer |-> l, patched |-> FALSE]
               /\ fw_pc' = fw_pc + 1
               /\ UNCHANGED <<mlp_in, model_out>>
               /\ FrameHook

\* patch_mlp_{layer} at blocks.{layer}.hook_mlp_in
PatchMlp ==
    /\ AtHook({"mlp_in"})
    /\ LET l == HookAt(fw_pc).layer
           r == pruning_edge_mlp_hook_all_tokens(l, resid)
       IN IF r.raised THEN Raise /\ fw_exc' = r.exc /\ UNCHANGED <<train_vars, nan_vars, ext_vars>>
          ELSE /\ mlp_in' = r.val
               /\ hook_done' = [kind |-> "mlp_in", layer |-> l, patched |-> r.patched]
               /\ fw_pc' = fw_pc + 1
               /\ UNCHANGED <<cache_vars, resid, q_in, k_in, v_in, model_out>>
               /\ FrameHook

\* cache_mlp_{layer} at blocks.{layer}.hook_mlp_out; the base model then adds
\* the MLP output to the residual stream
CacheMlp ==
    /\ AtHook({"mlp_out"})
    /\ LET l == HookAt(fw_pc).layer
           r == cache_hook_all_tokens(MlpOut(l, mlp_in))
       IN IF Len(r.ret) # Len(resid)
          THEN Raise /\ fw_exc' = BaseModelError /\ UNCHANGED <<train_vars, nan_vars, ext_vars>>
          ELSE /\ CacheAppend("mlp_out", l, r)
               /\ resid' = AddT(resid, r.ret)
               /\ mlp_in' = <<>>
               /\ hook_done' = [kind |-> "mlp_out", layer |-> l, patched |-> FALSE]
               /\ fw_pc' = fw_pc + 1
               /\ UNCHANGED <<q_in, k_in, v_in, model_out>>
               /\ FrameHook

\* patch_final (pruning_edge_final_hook_all_tokens) at the last hook_resid_post;
\* the base model then returns the unembedded output
PatchFinal ==
    /\ AtHook({"final"})
    /\ LET r == pruning_edge_mlp_hook_all_tokens(NLayers, resid)
       IN IF r.raised \/ ~FinalOk(r.val)
          THEN /\ Raise
               /\ fw_exc' = IF r.raised THEN r.exc ELSE OutsideTry("unflatten")
               /\ UNCHANGED <<train_vars, nan_vars, ext_vars>>
          ELSE /\ mlp_in' = r.val
               /\ model_out' = Unembed(final_latch(r.val))
               /\ hook_done' = [kind |-> "final", layer |-> NLayers, patched |-> r.patched]
               /\ fw_pc' = fw_pc + 1
               /\ UNCHANGED <<cache_vars, resid, q_in, k_in, v_in>>
               /\ FrameHook

\* EdgePruner.forward after the patched run: return the output, or split it
\* (parallel_inference), or start the reference run with the hooks disabled
ForwardAfterPatched ==
    /\ fw_pass = "patched"
    /\ fw_pc = NHooks + 1
    /\ IF return_output
       THEN /\ pruned_output' = model_out
            /\ EndCall("returned") /\ UNCHANGED fw_exc
            /\ UNCHANGED <<orig_output, disable_hooks, run_vars, fw_pc>>
       ELSE IF parallel_inference
       THEN /\ orig_output' = Head_(model_out, BatchSize)
            /\ pruned_output' = Tail_(model_out, BatchSize)
            /\ EndCall("returned") /\ UNCHANGED fw_exc
            /\ UNCHANGED <<disable_hooks, run_vars, fw_pc>>
       ELSE /\ pruned_output' = model_out
            /\ disable_hooks' = TRUE
            /\ StartRun("reference", batch)
            /\ UNCHANGED orig_output
    /\ UNCHANGED <<cfg_vars, cache_vars, sampled_mask, disable_pruning_hooks,
                   last_token_mask, batch, return_output>>
    /\ UNCHANGED <<train_vars, nan_vars, ext_vars>>

\* EdgePruner.forward after the reference run
ForwardAfterReference ==
    /\ fw_pass = "reference"
    /\ fw_pc = NHooks + 1
    /\ orig_output' = model_out
    /\ disable_hooks' = FALSE
    /\ EndCall("returned") /\ UNCHANGED fw_exc
    /\ UNCHANGED <<cfg_vars, cache_vars, run_vars, sampled_mask, disable_pruning_hooks,
                   last_token_mask, batch, return_output, fw_pc, pruned_output>>
    /\ UNCHANGED <<train_vars, nan_vars, ext_vars>>

\* EdgePruner.run_cache after its run
RunCacheReturn ==
    /\ fw_pass = "cache"
    /\ fw_pc = NHooks + 1
    /\ disable_pruning_hooks' = FALSE
    /\ EndCall("returned") /\ UNCHANGED fw_exc
    /\ UNCHANGED <<cfg_vars, cache_vars, run_vars, sampled_mask, disable_hooks,
                   last_token_mask, batch, return_output, fw_pc, pruned_output,
                   orig_output>>
    /\ UNCHANGED <<train_vars, nan_vars, ext_vars>>

----------------------------------------------------------------------------
(* Checkpoint files: take_snapshot and the resume block of edge_pruning.py *)
(* A file holds the generation of the take_snapshot call that wrote it and *)
(* the log.t of the state it was written from.                             *)

Absent == <<>>
File(gen, t) == <<gen, t>>
Exists(f) == f # Absent
GenOf(f) == f[1]
LogTOf(f) == f[2]

\* freshly constructed mask sampler, pruner, optimizers and log: loaded from no file
NotLoaded == 0 - 1
Fresh == [pruner_dict |-> NotLoaded, sampling_optim_dict |-> NotLoaded,
          modal_optim_dict |-> NotLoaded, log |-> NotLoaded]

\* for no_batches in range(edge_pruner.log.t, max_batches): the first pass
EnterLoop(t) ==
    /\ ck_no_batches' = t
    /\ ck_pc' = IF t < CkMaxBatches THEN "loop" ELSE "done"

\* the next pass of the loop
CkNextIteration ==
    /\ ck_no_batches' = ck_no_batches + 1
    /\ ck_pc' = IF ck_no_batches + 1 < CkMaxBatches THEN "loop" ELSE "done"

CkptInit ==
    /\ ck_pc = "start"
    /\ gpu_requeue \in BOOLEAN
    /\ pretrained \in BOOLEAN
    /\ \E earlier \in BOOLEAN :
          \* an empty folder, or the checkpoint an earlier run completed
          /\ snapshot_path = IF earlier THEN File(0, RecordEvery) ELSE Absent
          /\ metadata_path = IF earlier THEN File(0, RecordEvery) ELSE Absent
    /\ ck_gen = 0
    /\ ck_log_t = 0
    /\ ck_no_batches = 0
    /\ restored = Fresh
    /\ ck_restarts = 0

\* the resume block: load the previous run, or the pretrained weights, or nothing
ResumeBlock ==
    /\ ck_pc = "start"
    /\ IF gpu_requeue /\ Exists(snapshot_path) /\ Exists(metadata_path)
       THEN /\ restored' = [pruner_dict |-> GenOf(snapshot_path),
                            sampling_optim_dict |-> GenOf(snapshot_path),
                            modal_optim_dict |-> GenOf(snapshot_path),
                            log |-> GenOf(metadata_path)]
            /\ ck_log_t' = LogTOf(metadata_path)
            /\ EnterLoop(LogTOf(metadata_path))
       ELSE IF pretrained
       THEN \* previous_state = torch.load(snapshot_path), with no existence check
            IF Exists(snapshot_path)
            THEN /\ restored' = [Fresh EXCEPT !.pruner_dict = GenOf(snapshot_path)]
                 /\ ck_log_t' = 0
                 /\ EnterLoop(0)
            ELSE /\ ck_pc' = "load_failed"
                 /\ UNCHANGED <<restored, ck_log_t, ck_no_batches>>
       ELSE /\ restored' = Fresh
            /\ ck_log_t' = 0
            /\ EnterLoop(0)
    /\ UNCHANGED <<gpu_requeue, pretrained, snapshot_path, metadata_path, ck_gen, ck_restarts>>
    /\ UNCHANGED ckpt_frame

\* one pass of the loop body up to "if plotting:"; the forward call appends
\* one log entry
CkTrainStep ==
    /\ ck_pc = "loop"
    /\ ck_log_t' = ck_log_t + 1
    /\ IF plotting(ck_no_batches)
       THEN ck_pc' = "snapshot" /\ ck_no_batches' = ck_no_batches
       ELSE CkNextIteration
    /\ UNCHANGED <<gpu_requeue, pretrained, snapshot_path, metadata_path, ck_gen,
                   restored, ck_restarts>>
    /\ UNCHANGED ckpt_frame

\* take_snapshot, first write: torch.save({...}, snapshot_path)
take_snapshot_save ==
    /\ ck_pc = "snapshot"
    /\ ck_gen' = ck_gen + 1
    /\ snapshot_path' = File(ck_gen + 1, ck_log_t)
    /\ ck_pc' = "metadata"
    /\ UNCHANGED <<gpu_requeue, pretrained, metadata_path, ck_log_t, ck_no_batches,
                   restored, ck_restarts>>
    /\ UNCHANGED ckpt_frame

\* take_snapshot, second write: pickle.dump((edge_pruner.log, lp_count), f);
\* the further take_snapshot calls of the same plotting block write the
\* same state to the same two paths
take_snapshot_dump ==
    /\ ck_pc = "metadata"
    /\ metadata_path' = File(ck_gen, ck_log_t)
    /\ CkNextIteration
    /\ UNCHANGED <<gpu_requeue, pretrained, snapshot_path, ck_gen, ck_log_t,
                   restored, ck_restarts>>
    /\ UNCHANGED ckpt_frame

\* the job is interrupted and requeued: the process state is lost, the
\* files stay, and the script starts again
Interrupt ==
    /\ ck_pc \in {"loop", "snapshot", "metadata"}
    /\ ck_restarts < MaxRestarts
    /\ ck_restarts' = ck_restarts + 1
    /\ ck_pc' = "start"
    /\ ck_log_t' = 0
    /\ ck_no_batches' = 0
    /\ restored' = Fresh
    /\ UNCHANGED <<gpu_requeue, pretrained, snapshot_path, metadata_path, ck_gen>>
    /\ UNCHANGED ckpt_frame

----------------------------------------------------------------------------
(* The training log: LinePlot and the logging tail of EdgePruner.forward   *)

\* columns = ['kl_loss', *self.mask_sampler.log_columns]
stat_list == {"kl_loss", "complexity_loss", "temp", "temp_cond", "temp_count", "temp_reg"}

\* metric values, and the mask_details dictionaries get_mask_loss can return
Metrics == {0, 1}
MaskDetails == {[k \in stat_list \ {"kl_loss"} |-> v] : v \in Metrics}

add_entry_no_tick(book, t, entry) ==
    [stat_book |-> [k \in DOMAIN book |->
                       IF k \in DOMAIN entry THEN Append(book[k], entry[k])
                       ELSE Append(book[k], book[k][Len(book[k])])],
     t |-> t]

\* LinePlot.add_entry: a column missing from the entry repeats its last value
add_entry(book, t, entry) ==
    [stat_book |-> [k \in DOMAIN book |->
                       IF k \in DOMAIN entry THEN Append(book[k], entry[k])
                       ELSE Append(book[k], book[k][Len(book[k])])],
     t |-> t + 1]

\* log_entry = {"kl_loss": kl_losses.mean().item(), **mask_details}
log_entry(kl, details) ==
    [k \in stat_list |-> IF k = "kl_loss" THEN kl ELSE details[k]]

\* the body of the LinePlot constructor, and self.pause_log = False
LogInit ==
    /\ stat_book = [k \in stat_list |-> <<>>]
    /\ stat_t = 0
    /\ pause_log = FALSE
    /\ log_calls = 0
    /\ steps_done = 0

\* forward(batch, last_token_pos) called for training: the tail of forward
\* appends the entry unless logging is paused
ForwardLogs ==
    /\ log_calls < MaxLogCalls
    /\ log_calls' = log_calls + 1
    /\ \E kl \in Metrics, md \in MaskDetails :
          IF pause_log = FALSE
          THEN LET r == add_entry(stat_book, stat_t, log_entry(kl, md))
               IN /\ stat_book' = r.stat_book
                  /\ stat_t' = r.t
                  /\ steps_done' = steps_done + 1
          ELSE UNCHANGED <<stat_book, stat_t, steps_done>>
    /\ UNCHANGED pause_log
    /\ UNCHANGED log_frame

\* forward(..., return_output=True) returns before the log entry is built
ForwardReturnsOutput ==
    /\ log_calls < MaxLogCalls
    /\ log_calls' = log_calls + 1
    /\ UNCHANGED <<stat_book, stat_t, pause_log, steps_done>>
    /\ UNCHANGED log_frame

\* a caller sets or clears edge_pruner.pause_log
SetPauseLog ==
    /\ pause_log' = ~pause_log
    /\ UNCHANGED <<stat_book, stat_t, log_calls, steps_done>>
    /\ UNCHANGED log_frame

----------------------------------------------------------------------------
(* MaskSampler.sample_hard_concrete, sample_mask and get_mask_loss.        *)
(* Numbers are in thousandths; a value is finite, NaN or infinite (the     *)
(* infinite value is +inf). The sigmoid is the piecewise linear            *)
(* clamp(1/2 + x/4, 0, 1), and log is tabulated at the points used.        *)

Clamp(x, lo, hi) == Max(lo, Min(hi, x))

\* a parameter entry (in thirds) as a number in thousandths
Num(p) == IF IsFinite(p) THEN Fin((p[2] * 1000) \div 3) ELSE p

FAdd(a, b) == IF IsNan(a) \/ IsNan(b) THEN NaN
              ELSE IF ~IsFinite(a) \/ ~IsFinite(b) THEN Inf
              ELSE Fin(a[2] + b[2])
\* a * k for a finite k >= 0 in thousandths
FScale(a, k) == IF IsFinite(a) THEN Fin((a[2] * k) \div 1000) ELSE a
\* a / b for b > 0 or infinite
FDiv(a, b) == IF IsNan(a) \/ IsNan(b) THEN NaN
              ELSE IF ~IsFinite(a) THEN (IF IsFinite(b) THEN Inf ELSE NaN)
              ELSE IF ~IsFinite(b) THEN Fin(0)
              ELSE Fin((a[2] * 1000) \div b[2])
\* a / n for a >= 0 and a count n >= 0: 0/0 is NaN, x/0 is infinite
FDivCount(a, n) == IF IsNan(a) THEN NaN
                   ELSE IF ~IsFinite(a) THEN Inf
                   ELSE IF n = 0 THEN (IF a[2] = 0 THEN NaN ELSE Inf)
                   ELSE Fin(a[2] \div n)
FRelu(a) == IF IsFinite(a) THEN Fin(Max(0, a[2])) ELSE a
FSigmoid(a) == IF IsNan(a) THEN NaN
               ELSE IF ~IsFinite(a) THEN Fin(1000)
               ELSE Fin(Clamp(500 + (a[2] \div 4), 0, 1000))
\* tensor.clamp(0, 1): NaN stays NaN
FClamp01(a) == IF IsNan(a) THEN NaN
               ELSE IF ~IsFinite(a) THEN Fin(1000)
               ELSE Fin(Clamp(a[2], 0, 1000))
\* torch.nan_to_num(x, nan=0, posinf=0, neginf=0)
nan_to_num(a) == IF IsFinite(a) THEN a ELSE Fin(0)

RECURSIVE FSum(_, _)
FSum(f, S) ==
    IF S = {} THEN Fin(0)
    ELSE LET x == CHOOSE y \in S : TRUE IN FAdd(f[x], FSum(f, S \ {x}))

\* pruning_cfg.hard_concrete_endpoints
EndptLo == 0 - 100
EndptHi == 1100
\* math.log(-endpts[0] / endpts[1])
LogEndptRatio == 0 - 2398

\* torch.rand draws, and (.001 + unif).log() - (1 - unif).log() at each
Unifs == {0, 500, 999}
Logit(unif) == IF unif = 0 THEN 0 - 6908 ELSE IF unif = 500 THEN 2 ELSE 6908

\* sample_hard_concrete for one edge
sample_hard_concrete(unif, loc, sharp) ==
    LET concrete == FSigmoid(FDiv(FAdd(Fin(Logit(unif)), Num(loc)),
                                  FAdd(FRelu(Num(sharp)), Fin(1))))
    IN FClamp01(FScale(FAdd(concrete, Fin(EndptLo)), EndptHi - EndptLo))

\* the edges: the entries of the parameter tensors without their last index
Edges == {<<e[1], e[2], e[3]>> : e \in Entries}
Loc(sp, ed) == Entry(sp, <<ed[1], ed[2], ed[3], LOC>>)
Sharp(sp, ed) == Entry(sp, <<ed[1], ed[2], ed[3], SHARP>>)

\* sample_mask for one sample, with the uniform draw of every edge
sample_mask(sp, unif) ==
    [ed \in Edges |-> sample_hard_concrete(unif[ed], Loc(sp, ed), Sharp(sp, ed))]

\* (all_sampling_params[...,1] > 1).sum()
CountAbove1(sp) ==
    Cardinality({ed \in Edges : LET x == Num(Sharp(sp, ed))
                                IN ~IsNan(x) /\ (~IsFinite(x) \/ x[2] > 1000)})

\* MaskSampler.complexity_loss for one edge
complexity_loss(loc, sharp) ==
    FSigmoid(FAdd(Num(loc), FScale(FRelu(Num(sharp)), 0 - LogEndptRatio)))

\* get_mask_loss: the mask_details it returns (complexity_mean false)
get_mask_loss(sp, temp_c) ==
    LET n == Cardinality(Edges)
        relu_m1(ed) == FRelu(FAdd(Num(Sharp(sp, ed)), Fin(0 - 1000)))
        count_term(ed) == FAdd(FScale(FSigmoid(FRelu(Num(Sharp(sp, ed)))), 2000), Fin(0 - 1000))
    IN [complexity_loss |-> FSum([ed \in Edges |-> complexity_loss(Loc(sp, ed), Sharp(sp, ed))], Edges),
        temp |-> FDivCount(FSum([ed \in Edges |-> FRelu(Num(Sharp(sp, ed)))], Edges), n),
        temp_cond |-> FAdd(nan_to_num(FDivCount(FSum([ed \in Edges |-> relu_m1(ed)], Edges),
                                               CountAbove1(sp))), Fin(1000)),
        temp_count |-> FDivCount(FSum([ed \in Edges |-> count_term(ed)], Edges), n),
        temp_reg |-> Fin(temp_c)]

SampInit ==
    /\ prune_mask = <<>>
    /\ mask_details = <<>>

\* fix_nans has run since the last optimizer step, as it has whenever the
\* training loop calls forward
AfterFixNans == nan_calls > 0 \/ \A e \in Entries : IsFinite(Entry(sampling_params, e))

\* mask_sampler.sample_mask(), called first by mask_sampler()
SampleMask ==
    /\ AfterFixNans
    /\ prune_mask = <<>>
    /\ \E u_mlp \in Unifs, u_attn \in Unifs :
          prune_mask' = sample_mask(sampling_params,
                                    [ed \in Edges |-> IF ed[1] = "mlp_mlp" THEN u_mlp ELSE u_attn])
    /\ UNCHANGED mask_details
    /\ UNCHANGED samp_frame

\* mask_sampler.get_mask_loss(), called next by mask_sampler()
GetMaskLoss ==
    /\ prune_mask # <<>>
    /\ mask_details = <<>>
    /\ mask_details' = [details |-> get_mask_loss(sampling_params, 0),
                        above1 |-> CountAbove1(sampling_params)]
    /\ UNCHANGED prune_mask
    /\ UNCHANGED samp_frame

----------------------------------------------------------------------------
(* The modal terms of the patch hooks, for one edge with gate g. Gates and *)
(* coefficients are in units of 1/10000. A term is a multiple of a modal   *)
(* value, of the edge's source ("edge") or of modal[layer_no] ("layer"),   *)
(* and either carries gradient to it or is detached.                       *)

GateUnit == 10000
\* the cutoff 0.001 of (mask < 0.001) and (mask >= 0.001)
Cutoff == 10
GateValues == {0, 5, 10, 5000, 10000}

\* (mask < 0.001) * (1-mask) * modal + (mask >= 0.001) * (1-mask) * modal.detach()
modal_terms(g) ==
    << [of |-> "edge", coeff |-> IF g < Cutoff THEN GateUnit - g ELSE 0, grad |-> TRUE],
       [of |-> "edge", coeff |-> IF g >= Cutoff THEN GateUnit - g ELSE 0, grad |-> FALSE] >>

\* out + self.modal_attention[layer_no], out + self.modal_mlp[layer_no]
unweighted_term == << [of |-> "layer", coeff |-> GateUnit, grad |-> TRUE] >>

\* pruning_edge_attention_hook_all_tokens for an edge from source kind src
attention_hook_modal(L, src, g) ==
    (IF src = "mlp" THEN (IF ~ablation_backward THEN modal_terms(g) ELSE <<>>)
     ELSE modal_terms(g))
    \o (IF L > 0 /\ ablation_backward THEN unweighted_term ELSE <<>>)

\* pruning_edge_mlp_hook_all_tokens, and the final hook with L = n_layers
mlp_hook_modal(L, src, g) ==
    (IF src = "mlp" THEN (IF ~ablation_backward THEN modal_terms(g) ELSE <<>>)
     ELSE modal_terms(g))
    \o (IF ablation_backward THEN unweighted_term ELSE <<>>)

GradInit == hook_modal = <<>>

\* the attention hook of layer L for q, k or v builds its input
AttnHookModal ==
    /\ \E L \in Layers, c \in Circs, g \in GateValues :
         \E src \in (IF L = 0 THEN {"mlp"} ELSE {"mlp", "attn"}) :
            hook_modal' = [hook |-> "attention", layer |-> L, circ |-> c, src |-> src,
                           gate |-> g, terms |-> attention_hook_modal(L, src, g)]
    /\ UNCHANGED grad_frame

\* the MLP hook of layer L builds its input
MlpHookModal ==
    /\ \E L \in Layers, src \in {"mlp", "attn"}, g \in GateValues :
            hook_modal' = [hook |-> "mlp", layer |-> L, circ |-> 0, src |-> src,
                           gate |-> g, terms |-> mlp_hook_modal(L, src, g)]
    /\ UNCHANGED grad_frame

\* the final hook builds the output embedding
FinalHookModal ==
    /\ \E src \in {"mlp", "attn"}, g \in GateValues :
            hook_modal' = [hook |-> "final", layer |-> NLayers, circ |-> 0, src |-> src,
                           gate |-> g, terms |-> mlp_hook_modal(NLayers, src, g)]
    /\ UNCHANGED grad_frame

----------------------------------------------------------------------------
\* the settings of edge_pruning.py and an empty folder
CkptDefault ==
    /\ ck_pc = "start"
    /\ gpu_requeue = TRUE
    /\ pretrained = TRUE
    /\ snapshot_path = Absent
    /\ metadata_path = Absent
    /\ ck_gen = 0
    /\ ck_log_t = 0
    /\ ck_no_batches = 0
    /\ restored = Fresh
    /\ ck_restarts = 0

ExtDefault == CkptDefault /\ LogInit /\ SampInit /\ GradInit

\* edge_pruning.py constructs the pruner with parallel_inference=False and the defaults
Init == TrainInit /\ NanInit /\ FwdInitWith(FALSE, FALSE, TRUE, "zero") /\ ExtDefault

Next == TrainStep \/ PlotBlock

Spec == Init /\ [][Next]_vars

NanNext == OptimizerStep \/ FixNans

NanSpec == Init /\ [][NanNext]_vars

\* a pruner of any configuration
FwdInit ==
    /\ TrainInit
    /\ NanInit
    /\ \E par \in BOOLEAN, ab \in BOOLEAN, comp \in BOOLEAN, modal \in ModalIds :
          FwdInitWith(par, ab, comp, modal)
    /\ ExtDefault

FwdNext ==
    \/ ForwardCall
    \/ RunCacheCall
    \/ CacheEmbed
    \/ PatchAttn
    \/ CacheAttn
    \/ PatchMlp
    \/ CacheMlp
    \/ PatchFinal
    \/ ForwardAfterPatched
    \/ ForwardAfterReference
    \/ RunCacheReturn

FwdSpec == FwdInit /\ [][FwdNext]_vars

CkptInitAll ==
    /\ TrainInit
    /\ NanInit
    /\ FwdInitWith(FALSE, FALSE, TRUE, "zero")
    /\ CkptInit
    /\ LogInit
    /\ SampInit
    /\ GradInit

CkptNext ==
    \/ ResumeBlock
    \/ CkTrainStep
    \/ take_snapshot_save
    \/ take_snapshot_dump
    \/ Interrupt

CkptSpec == CkptInitAll /\ [][CkptNext]_vars

LogNext == ForwardLogs \/ ForwardReturnsOutput \/ SetPauseLog

LogSpec == Init /\ [][LogNext]_vars

\* initial parameters of any sharpness among SharpInits, in thirds
SharpInits == {1, 6}
SampleInit ==
    /\ TrainInit
    /\ FwdInitWith(FALSE, FALSE, TRUE, "zero")
    /\ ExtDefault
    /\ \E v \in SharpInits :
          sampling_params =
              [mlp_mlp |-> [r \in Rows |-> [c \in Pair |-> IF c = SHARP THEN Fin(v) ELSE Fin(1)]],
               attn_mlp |-> [r \in Rows |-> [h \in Heads |->
                               [c \in Pair |-> IF c = SHARP THEN Fin(v) ELSE Fin(1)]]]]
    /\ nan_ret = "none"
    /\ nan_calls = 0
    /\ nan_prev = sampling_params
    /\ nan_prev_ret = "none"

\* optimizer steps and fix_nans calls up to the forward call that is observed
SampleNext ==
    \/ (prune_mask = <<>> /\ OptimizerStep)
    \/ (prune_mask = <<>> /\ FixNans)
    \/ SampleMask
    \/ GetMaskLoss

SampleSpec == SampleInit /\ [][SampleNext]_vars

GradNext == AttnHookModal \/ MlpHookModal \/ FinalHookModal

\* a pruner of any configuration evaluates its hooks
GradSpec == FwdInit /\ [][GradNext]_vars

----------------------------------------------------------------------------
(* Early termination                                                       *)

\* a step of the plotting block, in which early_term() is evaluated
Evaluation == train_pc = "plot" /\ train_pc' # "plot"

\* C1: once the log holds at least 500 steps, evaluations at which all three
\* conditions hold each raise the counter by one, so that after at most 10
\* of them in a row the counter is at the threshold 10; the evaluation at
\* which the counter reaches 10 takes the final snapshot and ends the loop,
\* and no training step follows.
C1_FlatLogHalts ==
    /\ [](/\ good_streak <= TermThreshold
          /\ early_term_count >= good_streak
          /\ (early_term_count >= TermThreshold =>
                 /\ train_pc = "done"
                 /\ "-final" \in snapshots
                 /\ early_term_ret >= TermThreshold))
    /\ [][train_pc = "done" => UNCHANGED <<log_t, no_batches, train_pc>>]_vars

\* ten evaluations in a row with all three conditions, and the loop halted
C1_Witness ==
    /\ good_streak = TermThreshold
    /\ early_term_count = TermThreshold
    /\ train_pc = "done"
    /\ "-final" \in snapshots
    /\ no_batches < max_batches

\* C2: while the KL condition fails at least at every other evaluation,
\* the counter stays below the threshold 10, early termination never stops
\* the loop, and the loop ends only at the maximum batch count.
C2_OscillatingNeverHalts ==
    kl_osc =>
        /\ early_term_count < TermThreshold
        /\ "-final" \notin snapshots
        /\ (train_pc = "done" => no_batches = max_batches)

\* an oscillating log run to the maximum batch count, its last evaluation flat
C2_Witness ==
    /\ kl_osc
    /\ train_pc = "done"
    /\ no_batches = max_batches
    /\ KlFlat(eval_kl)
    /\ early_term_count = 1

\* C3 as claimed: a failed condition lowers the counter by one.
C3_DecrementByOne ==
    [][Evaluation /\ log_t >= MinSteps /\ ~AllConditions(eval_kl', eval_cx', log_temp)
         => early_term_count' = Max(0, early_term_count - 1)]_vars

\* C3 (amended): an evaluation with at least 500 logged steps adds one to the
\* counter when all three conditions hold and otherwise takes two off it,
\* floored at zero, and returns the new counter; the counter is never
\* negative; an evaluation with fewer than 500 logged steps returns 0 and
\* leaves the counter unchanged.
C3_CounterUpdate ==
    /\ [](early_term_count >= 0)
    /\ [][Evaluation =>
            IF log_t < MinSteps
            THEN early_term_count' = early_term_count /\ early_term_ret' = 0
            ELSE /\ early_term_ret' = early_term_count'
                 /\ early_term_count' =
                        IF AllConditions(eval_kl', eval_cx', log_temp)
                        THEN early_term_count + 1
                        ELSE Max(0, early_term_count - 2)]_vars

\* a failed evaluation that took the counter from 3 to 1
C3_Witness ==
    /\ log_t >= MinSteps
    /\ good_streak = 0
    /\ early_term_count = 1
    /\ early_term_ret = 1
    /\ ~AllConditions(eval_kl, eval_cx, log_temp)

----------------------------------------------------------------------------
(* Activation cache and patch hooks                                        *)

\* the sources an MLP-side cache of n+1 entries and an attention cache of n
\* entries hold when filled in layer order
CausalMlp(n) == [i \in 1 .. n + 1 |-> IF i = 1 THEN <<"embed", 0>> ELSE <<"mlp_out", i - 2>>]
CausalAttn(n) == [i \in 1 .. n |-> <<"attn_out", i - 1>>]

CallReturned == fw_pass = "idle" /\ fw_status = "returned"
\* the patch hook whose turn it is will rebuild its input from the caches
AttnHookWillPatch ==
    AtHook({"q", "k", "v"}) /\ ~disable_hooks
MlpHookWillPatch ==
    AtHook({"mlp_in", "final"}) /\ ~disable_hooks /\ ~disable_pruning_hooks

\* C4: forward and run_cache clear both caches before the model runs; the
\* caches never hold more than one run's entries; and after a call returns
\* they hold exactly the entries of that call: the embedding of its batch and
\* then the MLP outputs of layers 0..n_layers-1 (n_layers+1 entries), and the
\* attention outputs of layers 0..n_layers-1 (n_layers entries).
C4_CacheLifecycle ==
    /\ Len(mlp_cache) <= NLayers + 1
    /\ Len(attention_cache) <= NLayers
    /\ (fw_pass \in {"patched", "cache"} /\ fw_pc = 1 =>
            mlp_cache = <<>> /\ attention_cache = <<>>)
    /\ (CallReturned =>
            /\ mlp_cache_src = CausalMlp(NLayers)
            /\ attention_cache_src = CausalAttn(NLayers)
            /\ Len(mlp_cache) = NLayers + 1
            /\ Len(attention_cache) = NLayers
            /\ \A j \in 1 .. Len(mlp_cache[1]) :
                  mlp_cache[1][j] = Embed(batch)[((j - 1) % BatchSize) + 1])

\* run_cache has returned after an earlier forward call
C4_Witness ==
    /\ CallReturned
    /\ sampled_mask # "none"
    /\ pruned_output = <<>>
    /\ hook_done.kind = "final"
    /\ Len(mlp_cache) = NLayers + 1
    /\ Len(attention_cache) = NLayers

RECURSIVE PlainPre(_, _)
PlainPre(l, x) ==
    IF l = 0 THEN x
    ELSE LET pre == PlainPre(l - 1, x)
             h == PerHead(pre)
             mid == AddT(pre, AttnOut(l - 1, AttnAct(l - 1, h, h, h)))
         IN AddT(mid, MlpOut(l - 1, mid))
PlainMid(l, x) ==
    LET pre == PlainPre(l, x)
        h == PerHead(pre)
    IN AddT(pre, AttnOut(l, AttnAct(l, h, h, h)))

\* the rows of the patched samples in what a patch hook returned
PatchedRows(x) == IF parallel_inference THEN Tail_(x, BatchSize) ELSE x
\* what the patch hook that ran last was given and what it returned
HookOrigIn == IF hook_done.kind \in {"q", "k", "v"} THEN PerHead(resid) ELSE resid
HookRet == IF hook_done.kind = "q" THEN q_in
           ELSE IF hook_done.kind = "k" THEN k_in
           ELSE IF hook_done.kind = "v" THEN v_in
           ELSE mlp_in
\* the input the unmodified model gives the destination of that hook
PlainInput ==
    LET x == Embed(Repeat(batch, NSamples))
    IN IF hook_done.kind \in {"q", "k", "v"} THEN PerHead(PlainPre(hook_done.layer, x))
       ELSE IF hook_done.kind = "mlp_in" THEN PlainMid(hook_done.layer, x)
       ELSE PlainPre(NLayers, x)
\* the rows of the patched samples in the output forward obtained
PrunedRows == IF parallel_inference /\ return_output
              THEN Tail_(pruned_output, BatchSize) ELSE pruned_output
ForwardReturned == CallReturned /\ pruned_output # <<>>

\* C6: with every sampled gate 1, every patch hook returns, for the patched
\* samples, the input the unmodified model gives its destination, and the
\* patched forward pass returns the unmodified model's output.
C6_RoundTrip ==
    sampled_mask = "ones" =>
        /\ (hook_done.patched /\ fw_pass # "idle" => PatchedRows(HookRet) = PlainInput)
        /\ (ForwardReturned =>
              PrunedRows = Unembed(final_latch(PlainPre(NLayers, Embed(Repeat(batch, NSamples))))))

\* the rows of the output all agree: no two inputs of the batch are told apart
RowsAgree(out) == \A i \in 1 .. Len(out), j \in 1 .. Len(out) : out[i] = out[j]
AnswerAfterBos == \A b \in 1 .. BatchSize : last_token_mask[b][0] = 0

\* C7 as claimed: with every gate 0 the patched output is the same for any
\* two inputs run with the same mask, modal values and answer positions.
C7_OutputIgnoresInput ==
    ForwardReturned /\ sampled_mask = "zeros" => RowsAgree(PrunedRows)

\* C7 (amended): with every gate 0 the patched output is the same for any two
\* inputs run with the same mask, modal values and answer positions, when
\* the answer positions are all >= 1 or parallel_inference is set; at answer
\* position 0 without parallel_inference the output is the original input
\* that prepend_orig passes through.
C7_FullAblation ==
    ForwardReturned /\ sampled_mask = "zeros" /\ (parallel_inference \/ AnswerAfterBos)
        => RowsAgree(PrunedRows)

\* a fully ablated forward call on a batch whose rows differ everywhere
C7_Witness ==
    /\ ForwardReturned
    /\ sampled_mask = "zeros"
    /\ ~parallel_inference
    /\ AnswerAfterBos
    /\ batch = Batch("all")
    /\ modal_mlp = ModalMlp("nonzero")

\* C8: whatever the configuration, the value a patch hook that patched
\* returns at position 0 of every patched sequence is the original input at
\* position 0 (under parallel_inference the hook is given the rows of the
\* unpatched copy only, and they are the original input of every sample).
C8_BosPassThrough ==
    hook_done.patched /\ fw_pass # "idle" =>
        \A j \in 1 .. Len(PatchedRows(HookRet)) :
            PatchedRows(HookRet)[j][0] = HookOrigIn[((j - 1) % Len(HookOrigIn)) + 1][0]

----------------------------------------------------------------------------
(* fix_nans                                                                *)

AllFinite(sp) == \A e \in Entries : IsFinite(Entry(sp, e))

\* C9: after fix_nans() every sharpness that was non-finite is the default
\* 2/3, in tensors of every shape; every location and every sharpness that
\* was finite is unchanged; and the flag is true exactly when every entry is
\* finite after the call.
C9_RepairsEverySharpness ==
    nan_calls >= 1 =>
        /\ \A e \in Entries :
              IF e[4] = SHARP /\ ~IsFinite(Entry(nan_prev, e))
              THEN Entry(sampling_params, e) = def_value
              ELSE Entry(sampling_params, e) = Entry(nan_prev, e)
        /\ (nan_ret = "true" <=> AllFinite(sampling_params))

\* C10 as claimed: the second of two calls in a row changes nothing and
\* returns "all finite".
C10_SecondCallReturnsTrue ==
    nan_calls >= 2 => sampling_params = nan_prev /\ nan_ret = "true"

\* C10 (amended): the second of two calls in a row changes nothing and
\* returns the flag the first call returned, which is true exactly when no
\* entry is NaN.
C10_Idempotent ==
    nan_calls >= 2 =>
        /\ sampling_params = nan_prev
        /\ nan_ret = nan_prev_ret
        /\ (nan_ret = "true" <=> nancount(sampling_params) = 0)

\* two calls in a row on parameters with a NaN location and a repaired sharpness
C10_Witness ==
    /\ nan_calls = 2
    /\ nan_ret = "false"
    /\ IsNan(sampling_params.mlp_mlp[0][LOC])
    /\ sampling_params.mlp_mlp[1][SHARP] = def_value

----------------------------------------------------------------------------
(* Checkpointing                                                           *)

\* the resume block has loaded state
Resumed == ck_pc \in {"loop", "snapshot", "metadata", "done"}

\* C11: a checkpoint is all-or-nothing: at every moment the two files are of
\* the same take_snapshot call (or both absent), and what a resume restored
\* (mask parameters and modal values, both optimizer states, the log) is,
\* with gpu_requeue set, all of one take_snapshot call or all fresh.
C11_CheckpointAtomic ==
    /\ (ck_pc = "start" =>
          \/ ~Exists(snapshot_path) /\ ~Exists(metadata_path)
          \/ Exists(snapshot_path) /\ Exists(metadata_path)
               /\ GenOf(snapshot_path) = GenOf(metadata_path))
    /\ (Resumed /\ gpu_requeue =>
          /\ restored.pruner_dict = restored.log
          /\ restored.sampling_optim_dict = restored.log
          /\ restored.modal_optim_dict = restored.log)

\* C12: the resume block never attempts a load that fails on a missing file:
\* whatever the flags and whichever files exist, the run goes on.
C12_LoadNeverFails == ck_pc # "load_failed"

----------------------------------------------------------------------------
(* Exceptions inside the patch hooks                                       *)

\* every operand whose shape the except clause of a hook prints
AllShapes(src) ==
    IF src = "attention_try" THEN <<"sampled_mask", "orig_in", "mlp_mask", "attn_mask">>
    ELSE <<"orig_in", "attn_mask", "mlp_mask">>

\* C13: when a statement of the try block of a patch hook raises, whichever
\* statement it is, the except clause prints all the operand shapes and the
\* exception that leaves the hook is the original one.
C13_DiagnosticThenReraise ==
    fw_status = "raised" /\ fw_exc.src \in {"attention_try", "mlp_try"} =>
        /\ fw_exc.exc = "original"
        /\ fw_exc.printed = AllShapes(fw_exc.src)

----------------------------------------------------------------------------
(* The reference pass of forward                                           *)

PatchKinds == {"q", "k", "v", "mlp_in", "final"}

\* C14: during the reference pass of forward the hooks are disabled: every
\* patch hook returns its input, no step appends to or alters the caches or
\* the sampled mask, and the reference output is that of the unmodified
\* model whatever the mask; when forward returns the hooks are enabled again.
C14_ReferencePassIsolated ==
    /\ [](fw_pass = "reference" =>
            /\ disable_hooks
            /\ ~hook_done.patched
            /\ (hook_done.kind \in PatchKinds => HookRet = HookOrigIn))
    /\ [][fw_pass = "reference" \/ fw_pass' = "reference"
            => UNCHANGED <<cache_vars, sampled_mask>>]_vars
    /\ [](CallReturned =>
            /\ ~disable_hooks
            /\ (orig_output # <<>> /\ ~parallel_inference =>
                  orig_output = Unembed(final_latch(PlainPre(NLayers, Embed(batch))))))

\* the reference pass has gone through all its hooks after a fully ablated
\* patched pass that filled the caches
C14_Witness ==
    /\ fw_pass = "reference"
    /\ hook_done.kind = "final"
    /\ sampled_mask = "zeros"
    /\ modal_mlp = ModalMlp("nonzero")
    /\ Len(mlp_cache) = NLayers + 1
    /\ pruned_output # <<>>

----------------------------------------------------------------------------
(* run_cache                                                               *)

\* C19: while run_cache runs the model, disable_pruning_hooks is set and
\* every patch hook (attention q/k/v, MLP, final) returns its input
\* unmodified, so that what is cached is what the unmodified model computes;
\* disable_pruning_hooks is false again once run_cache has returned.
C19_RunCacheUnpatched ==
    /\ (fw_pass = "cache" =>
          /\ disable_pruning_hooks
          /\ (hook_done.kind \in PatchKinds => HookRet = HookOrigIn))
    /\ (CallReturned => ~disable_pruning_hooks)

----------------------------------------------------------------------------
(* The training log                                                        *)

IsPrefix(a, b) == Len(a) <= Len(b) /\ SubSeq(b, 1, Len(a)) = a

----------------------------------------------------------------------------
(* Sampled gates and logged metrics                                        *)

InUnitInterval(g) == IsFinite(g) /\ g[2] >= 0 /\ g[2] <= 1000

\* C16: after every sample_mask() call every sampled gate lies in [0,1],
\* whatever parameters the optimizer steps and fix_nans have left and
\* whatever the uniform draw.
C16_GateInUnitInterval ==
    prune_mask # <<>> => \A ed \in Edges : InUnitInterval(prune_mask[ed])

\* C17: in the details get_mask_loss returns, temp_cond is the sentinel 1
\* when no edge has sharpness > 1, and no metric is non-finite.
C17_MetricsFinite ==
    mask_details # <<>> =>
        /\ (mask_details.above1 = 0 => mask_details.details.temp_cond = Fin(1000))
        /\ \A k \in DOMAIN mask_details.details : IsFinite(mask_details.details[k])

----------------------------------------------------------------------------
(* Gradient of the modal values                                            *)

\* the sum of the coefficients of the terms of ts that satisfy keep
RECURSIVE CoeffSum(_, _, _)
CoeffSum(ts, keep(_), i) ==
    IF i > Len(ts) THEN 0
    ELSE (IF keep(ts[i]) THEN ts[i].coeff ELSE 0) + CoeffSum(ts, keep, i + 1)

AnyTerm(t) == TRUE
WithGradient(t) == t.grad

\* C18: in every patch hook, for every edge, the modal value contributes
\* (1 - gate) * modal, and the modal terms carry gradient only when the gate
\* is below the cutoff 0.001; for a gate >= 0.001 every modal term is
\* detached.
C18_ModalGradientGating ==
    hook_modal # <<>> =>
        /\ CoeffSum(hook_modal.terms, AnyTerm, 1) = GateUnit - hook_modal.gate
        /\ CoeffSum(hook_modal.terms, WithGradient, 1)
              = (IF hook_modal.gate < Cutoff THEN GateUnit - hook_modal.gate ELSE 0)
====
